---------------------------- MODULE Spec2Model ----------------------------
(***************************************************************************)
(* A model of the META-II assembly VM of src/meta2.py: the VM dataclass,   *)
(* its 17 opcodes, the assembler MetaII.assemble and the driver            *)
(* MetaII.run / MetaII.step.                                               *)
(*                                                                         *)
(* Python str values are sequences of one-character strings, so that       *)
(* slicing, startswith, the regular expressions and the f-string of op_gn  *)
(* are computed character by character as the code computes them.  An      *)
(* instruction operand is a tagged value: [t |-> "str", v |-> chars] or    *)
(* [t |-> "int", v |-> n], the two Python types the assembler produces.    *)
(***************************************************************************)
EXTENDS Integers, Sequences, FiniteSets, TLC

VARIABLES
    meta_vm,    \* MetaII.meta_vm: the VM record (fields as in the dataclass)
    start,      \* MetaII.start
    mode,       \* position of the caller: "idle", or "running" inside run's while loop
    result,     \* outcome of the last call, when it was a run that has finished
    load,       \* outcome of the last assemble call, with its argument
    steps,      \* number of instructions executed in the current run
    frames,     \* history: the open frames of the current run, innermost first
    prev,       \* history: the VM as it was before the last executed instruction
    last,       \* history: the last executed instruction and what it did
    hist        \* history: what the instructions of the current run emitted

vars == <<meta_vm, start, mode, result, load, steps, frames, prev, last, hist>>

-----------------------------------------------------------------------------
(* Characters and Python's sequence primitives *)

VT == "\\x0b"

whitespace == {" ", "\t", "\n", "\r", VT, "\f"}

digits == {"0", "1", "2", "3", "4", "5", "6", "7", "8", "9"}

letters ==
    {"a", "b", "c", "d", "e", "f", "g", "h", "i", "j", "k", "l", "m",
     "n", "o", "p", "q", "r", "s", "t", "u", "v", "w", "x", "y", "z",
     "A", "B", "C", "D", "E", "F", "G", "H", "I", "J", "K", "L", "M",
     "N", "O", "P", "Q", "R", "S", "T", "U", "V", "W", "X", "Y", "Z"}

QUOTE == "'"

Min(a, b) == IF a <= b THEN a ELSE b

Max(a, b) == IF a >= b THEN a ELSE b

\* s[a:b] for 0 <= a, 0 <= b
Slice(s, a, b) ==
    IF a >= Min(b, Len(s)) THEN <<>> ELSE SubSeq(s, a + 1, Min(b, Len(s)))

\* s[a:] for 0 <= a
SliceFrom(s, a) == Slice(s, a, Len(s))

\* s.startswith(p)
startswith(s, p) == Len(p) <= Len(s) /\ Slice(s, 0, Len(p)) = p

\* s[-n:] = v, the slice assignment of op_r (n > 0)
SetTail(s, n, v) == Slice(s, 0, Max(0, Len(s) - n)) \o v

\* the string of a tagged operand
StrArg(chars) == [t |-> "str", v |-> chars]

IntArg(n) == [t |-> "int", v |-> n]

-----------------------------------------------------------------------------
(* class VM *)

NewVM(pc, mem) ==
    [program_counter |-> pc, memory |-> mem, switch |-> FALSE, inbuf |-> <<>>,
     outbuf |-> <<>>, outline |-> <<>>, outlabel |-> FALSE, labels |-> <<>>,
     stack |-> <<>>, inbuf_index |-> 0, deleted |-> <<>>, templabel |-> 0]

\* a reset that leaves the switch set
reset_sets_switch(vm) ==
    [vm EXCEPT !.stack = <<>>, !.outbuf = <<>>, !.outlabel = FALSE,
               !.outline = <<>>, !.deleted = <<>>, !.switch = TRUE,
               !.templabel = 0]

reset(vm) ==
    [vm EXCEPT !.stack = <<>>, !.outbuf = <<>>, !.outlabel = FALSE,
               !.outline = <<>>, !.deleted = <<>>, !.switch = FALSE,
               !.templabel = 0]

input(vm) == SliceFrom(vm.inbuf, vm.inbuf_index)

seek(vm, i, relative) ==
    [vm EXCEPT !.inbuf_index =
        Max(0, IF relative THEN i + vm.inbuf_index ELSE i)]

RECURSIVE skip_ws(_)
skip_ws(vm) ==
    IF Len(input(vm)) > 0 /\ input(vm)[1] \in whitespace
    THEN skip_ws(seek(vm, 1, TRUE))
    ELSE vm

\* a delete that seeks to chars from the start of the input
delete_absolute(vm, chars) ==
    seek([vm EXCEPT !.deleted = Slice(input(vm), 0, chars)], chars, FALSE)

delete(vm, chars) ==
    seek([vm EXCEPT !.deleted = Slice(input(vm), 0, chars)], chars, TRUE)

RECURSIVE count(_, _)
count(s, c) ==
    IF s = <<>> THEN 0
    ELSE (IF Head(s) = c THEN 1 ELSE 0) + count(Tail(s), c)

\* a line number that counts the newlines of the whole input
linenum_whole_input(vm) == count(vm.inbuf, "\n") + 1

linenum(vm) == count(Slice(vm.inbuf, 0, vm.inbuf_index), "\n") + 1

\* resolve raises KeyError on a label the table lacks
resolve_raises(vm, elem) == elem.t = "str" /\ elem.v \notin DOMAIN vm.labels

resolve(vm, elem) == IF elem.t = "str" THEN vm.labels[elem.v] ELSE elem.v

-----------------------------------------------------------------------------
(* The regular expressions of op_id, op_num, op_sr and assemble: each gives *)
(* the length of re.match's match at the start of s, or -1 for None.        *)

\* the length of the longest prefix of s made of characters of cs: [cs]*
RECURSIVE span(_, _)
span(s, cs) ==
    IF s # <<>> /\ Head(s) \in cs THEN 1 + span(Tail(s), cs) ELSE 0

\* [^']*
RECURSIVE span_unquoted(_)
span_unquoted(s) ==
    IF s # <<>> /\ Head(s) # QUOTE THEN 1 + span_unquoted(Tail(s)) ELSE 0

\* [a-zA-Z][a-zA-Z0-9]*
match_id(s) ==
    IF s # <<>> /\ Head(s) \in letters
    THEN 1 + span(Tail(s), letters \cup digits)
    ELSE -1

\* (\.[0-9]+)*
RECURSIVE match_groups(_)
match_groups(s) ==
    IF s # <<>> /\ Head(s) = "." /\ span(Tail(s), digits) > 0
    THEN 1 + span(Tail(s), digits)
           + match_groups(SliceFrom(s, 1 + span(Tail(s), digits)))
    ELSE 0

\* a num that stops at the first dot
match_num_integer(s) == IF span(s, digits) > 0 THEN span(s, digits) ELSE -1

\* [0-9]+(\.[0-9]+)*
match_num(s) ==
    IF span(s, digits) > 0
    THEN span(s, digits) + match_groups(SliceFrom(s, span(s, digits)))
    ELSE -1

\* '[^']+'
match_sr(s) ==
    IF /\ s # <<>>
       /\ Head(s) = QUOTE
       /\ span_unquoted(Tail(s)) > 0
       /\ Len(s) >= span_unquoted(Tail(s)) + 2
       /\ s[span_unquoted(Tail(s)) + 2] = QUOTE
    THEN span_unquoted(Tail(s)) + 2
    ELSE -1

-----------------------------------------------------------------------------
(* The opcodes.  Each takes the VM and the operand tuple and gives the VM  *)
(* it leaves and the exception it raises ("none" when it returns).         *)

Ok(vm) == [vm |-> vm, exc |-> "none"]

Raise(vm, e) == [vm |-> vm, exc |-> e]

op_tst(vm, args) ==
    LET ws == skip_ws(vm) IN
    IF args = <<>> THEN Raise(ws, "IndexError")
    ELSE IF args[1].t # "str" THEN Raise(ws, "TypeError")
    ELSE IF startswith(input(ws), args[1].v)
         THEN Ok([delete(ws, Len(args[1].v)) EXCEPT !.switch = TRUE])
         ELSE Ok([ws EXCEPT !.switch = FALSE])

\* an id that forgets the deleted text when it fails
op_id_forgets(vm, args) ==
    LET ws == skip_ws(vm)
        m == match_id(input(ws))
    IN IF m # -1
       THEN Ok([delete(ws, m) EXCEPT !.switch = TRUE])
       ELSE Ok([delete(ws, 0) EXCEPT !.switch = FALSE])

op_id(vm, args) ==
    LET ws == skip_ws(vm)
        m == match_id(input(ws))
    IN IF m # -1
       THEN Ok([delete(ws, m) EXCEPT !.switch = TRUE])
       ELSE Ok([ws EXCEPT !.switch = FALSE])

op_num(vm, args) ==
    LET ws == skip_ws(vm)
        m == match_num(input(ws))
    IN IF m # -1
       THEN Ok([delete(ws, m) EXCEPT !.switch = TRUE])
       ELSE Ok([ws EXCEPT !.switch = FALSE])

op_sr(vm, args) ==
    LET ws == skip_ws(vm)
        m == match_sr(input(ws))
    IN IF m # -1
       THEN Ok([delete(ws, m) EXCEPT !.switch = TRUE])
       ELSE Ok([ws EXCEPT !.switch = FALSE])

\* a cll that elides whatever the two label slots hold
op_cll_always_elides(vm, args) ==
    LET n == Len(vm.stack)
        elide == n >= 2
        grown == IF elide THEN Append(vm.stack, 0)
                 ELSE vm.stack \o <<0, 0, 0>>
        flag == IF elide THEN -1 ELSE 1
        pushed == [vm EXCEPT !.stack =
                     [grown EXCEPT ![Len(grown) - 2] = vm.program_counter * flag]]
    IN IF args = <<>> THEN Raise(pushed, "IndexError")
       ELSE IF resolve_raises(pushed, args[1]) THEN Raise(pushed, "KeyError")
       ELSE Ok([pushed EXCEPT !.program_counter = resolve(pushed, args[1])])

\* a cll that stores the return address without a sign
op_cll_unsigned(vm, args) ==
    LET n == Len(vm.stack)
        elide == n >= 2 /\ vm.stack[n - 1] = 0 /\ vm.stack[n] = 0
        grown == IF elide THEN Append(vm.stack, 0)
                 ELSE vm.stack \o <<0, 0, 0>>
        pushed == [vm EXCEPT !.stack =
                     [grown EXCEPT ![Len(grown) - 2] = vm.program_counter]]
    IN IF args = <<>> THEN Raise(pushed, "IndexError")
       ELSE IF resolve_raises(pushed, args[1]) THEN Raise(pushed, "KeyError")
       ELSE Ok([pushed EXCEPT !.program_counter = resolve(pushed, args[1])])

op_cll(vm, args) ==
    LET n == Len(vm.stack)
        elide == n >= 2 /\ vm.stack[n - 1] = 0 /\ vm.stack[n] = 0
        grown == IF elide THEN Append(vm.stack, 0)
                 ELSE vm.stack \o <<0, 0, 0>>
        flag == IF elide THEN -1 ELSE 1
        pushed == [vm EXCEPT !.stack =
                     [grown EXCEPT ![Len(grown) - 2] = vm.program_counter * flag]]
    IN IF args = <<>> THEN Raise(pushed, "IndexError")
       ELSE IF resolve_raises(pushed, args[1]) THEN Raise(pushed, "KeyError")
       ELSE Ok([pushed EXCEPT !.program_counter = resolve(pushed, args[1])])

\* an r that removes three entries whatever the sign of the return address
op_r_pops_three(vm, args) ==
    LET n == Len(vm.stack) IN
    IF n < 3 THEN Raise(vm, "IndexError")
    ELSE LET retaddr == vm.stack[n - 2] IN
         Ok([vm EXCEPT
               !.stack = Slice(vm.stack, 0, n - 3),
               !.program_counter = IF retaddr < 0 THEN -retaddr ELSE retaddr])

\* an r that leaves the exposed entries of an elided frame as they are
op_r_keeps_slots(vm, args) ==
    LET n == Len(vm.stack) IN
    IF n < 3 THEN Raise(vm, "IndexError")
    ELSE LET retaddr == vm.stack[n - 2] IN
         IF retaddr < 0
         THEN Ok([vm EXCEPT
                    !.stack = [Slice(vm.stack, 0, n - 1) EXCEPT ![n - 2] = 0],
                    !.program_counter = -retaddr])
         ELSE Ok([vm EXCEPT
                    !.stack = Slice(vm.stack, 0, n - 3),
                    !.program_counter = retaddr])

op_r(vm, args) ==
    LET n == Len(vm.stack) IN
    IF n < 3 THEN Raise(vm, "IndexError")
    ELSE LET retaddr == vm.stack[n - 2] IN
         IF retaddr < 0
         THEN Ok([vm EXCEPT
                    !.stack = SetTail(Slice(vm.stack, 0, n - 1), 2, <<0, 0>>),
                    !.program_counter = -retaddr])
         ELSE Ok([vm EXCEPT
                    !.stack = Slice(vm.stack, 0, n - 3),
                    !.program_counter = retaddr])

op_set(vm, args) == Ok([vm EXCEPT !.switch = TRUE])

op_b(vm, args) ==
    IF args = <<>> THEN Raise(vm, "IndexError")
    ELSE IF resolve_raises(vm, args[1]) THEN Raise(vm, "KeyError")
    ELSE Ok([vm EXCEPT !.program_counter = resolve(vm, args[1])])

\* a bt that resolves its operand before it tests the switch
op_bt_resolves_first(vm, args) ==
    IF args = <<>> THEN Raise(vm, "IndexError")
    ELSE IF resolve_raises(vm, args[1]) THEN Raise(vm, "KeyError")
    ELSE IF vm.switch THEN op_b(vm, args) ELSE Ok(vm)

op_bt(vm, args) == IF vm.switch THEN op_b(vm, args) ELSE Ok(vm)

op_bf(vm, args) == IF ~vm.switch THEN op_b(vm, args) ELSE Ok(vm)

\* a be that lets the run go on
op_be_continues(vm, args) == Ok(vm)

op_be(vm, args) == IF ~vm.switch THEN Raise(vm, "MetaSyntax") ELSE Ok(vm)

op_cl(vm, args) ==
    IF args = <<>> THEN Raise(vm, "IndexError")
    ELSE IF args[1].t # "str" THEN Raise(vm, "TypeError")
    ELSE Ok([vm EXCEPT !.outline = @ \o args[1].v])

op_ci(vm, args) == Ok([vm EXCEPT !.outline = @ \o vm.deleted])

\* str(n) for n >= 0, the {label} of the f-string
RECURSIVE decimal(_)
decimal(n) ==
    LET d == <<"0", "1", "2", "3", "4", "5", "6", "7", "8", "9">>
    IN IF n < 10 THEN <<d[n + 1]>> ELSE decimal(n \div 10) \o <<d[(n % 10) + 1]>>

\* a gn that allocates without advancing the counter
op_gn_keeps_counter(vm, offset) ==
    LET n == Len(vm.stack) IN
    IF n < offset THEN Raise(vm, "IndexError")
    ELSE LET label == vm.stack[n + 1 - offset] IN
         IF label = 0
         THEN Ok([vm EXCEPT
                    !.stack[n + 1 - offset] = vm.templabel + 1,
                    !.outline = @ \o <<"l">> \o decimal(vm.templabel + 1)])
         ELSE Ok([vm EXCEPT !.outline = @ \o <<"l">> \o decimal(label)])

op_gn(vm, offset) ==
    LET n == Len(vm.stack) IN
    IF n < offset THEN Raise(vm, "IndexError")
    ELSE LET label == vm.stack[n + 1 - offset] IN
         IF label = 0
         THEN Ok([vm EXCEPT
                    !.templabel = @ + 1,
                    !.stack[n + 1 - offset] = vm.templabel + 1,
                    !.outline = @ \o <<"l">> \o decimal(vm.templabel + 1)])
         ELSE Ok([vm EXCEPT !.outline = @ \o <<"l">> \o decimal(label)])

op_gn1(vm, args) == op_gn(vm, 1)

op_gn2(vm, args) == op_gn(vm, 2)

op_lb(vm, args) == Ok([vm EXCEPT !.outlabel = TRUE])

\* an out that leaves outlabel set
op_out_keeps_label(vm, args) ==
    Ok([vm EXCEPT
          !.outbuf = (IF ~vm.outlabel THEN @ \o <<"\t">> ELSE @)
                       \o vm.outline \o <<"\n">>,
          !.outline = <<>>])

op_out(vm, args) ==
    Ok([vm EXCEPT
          !.outbuf = (IF ~vm.outlabel THEN @ \o <<"\t">> ELSE @)
                       \o vm.outline \o <<"\n">>,
          !.outlabel = FALSE,
          !.outline = <<>>])

-----------------------------------------------------------------------------
(* The string methods and conversions assemble uses *)

\* str.splitlines: the line boundaries among the model's characters are
\* \n, \r, \r\n, \x0b and \f.  is_break(s, i): a line ends with s[i] (the \r
\* of \r\n does not end one, its \n does)
is_break(s, i) ==
    /\ s[i] \in {"\n", "\r", VT, "\f"}
    /\ ~(s[i] = "\r" /\ i < Len(s) /\ s[i + 1] = "\n")

\* the lines of s from position i on (1-based), a last line without a
\* boundary included unless it is empty
RECURSIVE lines_from(_, _)
lines_from(s, i) ==
    IF i > Len(s) THEN <<>>
    ELSE IF \E b \in i..Len(s) : is_break(s, b)
    THEN LET b == CHOOSE b \in i..Len(s) :
                     is_break(s, b) /\ \A c \in i..(b - 1) : ~is_break(s, c)
             e == IF s[b] = "\n" /\ b > i /\ s[b - 1] = "\r" THEN b - 2 ELSE b - 1
         IN <<Slice(s, i - 1, e)>> \o lines_from(s, b + 1)
    ELSE <<Slice(s, i - 1, Len(s))>>

splitlines(s) == lines_from(s, 1)

lstrip(s) == SliceFrom(s, span(s, whitespace))

RECURSIVE rstrip(_)
rstrip(s) ==
    IF s # <<>> /\ s[Len(s)] \in whitespace
    THEN rstrip(Slice(s, 0, Len(s) - 1))
    ELSE s

\* s.lstrip().rstrip()
strip(s) == rstrip(lstrip(s))

\* the length of the longest prefix of s without whitespace
RECURSIVE span_word(_)
span_word(s) ==
    IF s # <<>> /\ Head(s) \notin whitespace THEN 1 + span_word(Tail(s)) ELSE 0

\* line.split(maxsplit=1): the first word, and the rest of the line from its
\* next word on (trailing whitespace kept) when there is one
split1(line) ==
    LET s == lstrip(line)
        w == span_word(s)
        rest == lstrip(SliceFrom(s, w))
    IN IF s = <<>> THEN <<>>
       ELSE IF rest = <<>> THEN <<Slice(s, 0, w)>>
       ELSE <<Slice(s, 0, w), rest>>

\* int(s) for a string of decimal digits
RECURSIVE int_of(_)
int_of(s) ==
    LET d == [c \in digits |->
                CHOOSE n \in 0..9 :
                    <<"0", "1", "2", "3", "4", "5", "6", "7", "8", "9">>[n + 1] = c]
    IN IF s = <<>> THEN 0
       ELSE 10 * int_of(Slice(s, 0, Len(s) - 1)) + d[s[Len(s)]]

\* int(arg) raises ValueError unless arg is a decimal literal
int_raises(arg) == arg = <<>> \/ span(arg, digits) # Len(arg)

\* the classification of one operand (lines 277-285); "ValueError" is int's
parse_arg(arg) ==
    IF match_sr(arg) # -1
    THEN [exc |-> "none", arg |-> StrArg(Slice(arg, 1, match_sr(arg) - 1))]
    ELSE IF span(arg, digits) > 0
    THEN (IF int_raises(arg)
          THEN [exc |-> "ValueError", arg |-> StrArg(arg)]
          ELSE [exc |-> "none", arg |-> IntArg(int_of(arg))])
    ELSE [exc |-> "none", arg |-> StrArg(arg)]

-----------------------------------------------------------------------------
(* class MetaII *)

\* the opcode table built by the @newop decorators: mnemonic -> opcode
metaops ==
    (<<"t", "s", "t">> :> "tst") @@ (<<"i", "d">> :> "id")
    @@ (<<"n", "u", "m">> :> "num") @@ (<<"s", "r">> :> "sr")
    @@ (<<"c", "l", "l">> :> "cll") @@ (<<"r">> :> "r")
    @@ (<<"s", "e", "t">> :> "set") @@ (<<"b">> :> "b")
    @@ (<<"b", "t">> :> "bt") @@ (<<"b", "f">> :> "bf")
    @@ (<<"b", "e">> :> "be") @@ (<<"c", "l">> :> "cl")
    @@ (<<"c", "i">> :> "ci") @@ (<<"g", "n", "1">> :> "gn1")
    @@ (<<"g", "n", "2">> :> "gn2") @@ (<<"l", "b">> :> "lb")
    @@ (<<"o", "u", "t">> :> "out")

\* the call opcode(meta_vm, args) of step, by the opcode's tag
exec(vm, opcode, args) ==
    CASE opcode = "tst" -> op_tst(vm, args)
      [] opcode = "id"  -> op_id(vm, args)
      [] opcode = "num" -> op_num(vm, args)
      [] opcode = "sr"  -> op_sr(vm, args)
      [] opcode = "cll" -> op_cll(vm, args)
      [] opcode = "r"   -> op_r(vm, args)
      [] opcode = "set" -> op_set(vm, args)
      [] opcode = "b"   -> op_b(vm, args)
      [] opcode = "bt"  -> op_bt(vm, args)
      [] opcode = "bf"  -> op_bf(vm, args)
      [] opcode = "be"  -> op_be(vm, args)
      [] opcode = "cl"  -> op_cl(vm, args)
      [] opcode = "ci"  -> op_ci(vm, args)
      [] opcode = "gn1" -> op_gn1(vm, args)
      [] opcode = "gn2" -> op_gn2(vm, args)
      [] opcode = "lb"  -> op_lb(vm, args)
      [] opcode = "out" -> op_out(vm, args)

\* the state of assemble's loop: its locals, the exception raised, the line
\* that raised it
AsmState(labels, memory, start_, exc, line) ==
    [labels |-> labels, memory |-> memory, start |-> start_,
     exc |-> exc, line |-> line]

\* a binding that keeps the first definition of a label
bind_label_keeps_first(labels, line, memory) ==
    labels @@ (strip(line) :> Len(memory))

\* labels[line.lstrip().rstrip()] = len(memory)
bind_label(labels, line, memory) == (strip(line) :> Len(memory)) @@ labels

\* the for loop of assemble from line i on (lines 267-293)
RECURSIVE assemble_loop(_, _, _, _, _)
assemble_loop(lines, i, labels, memory, start_) ==
    IF i > Len(lines) THEN AsmState(labels, memory, start_, "none", <<>>)
    ELSE
    LET line == lines[i] IN
    IF \A k \in 1..Len(line) : line[k] \in whitespace
    THEN assemble_loop(lines, i + 1, labels, memory, start_)
    ELSE IF line[1] \notin whitespace
    THEN assemble_loop(lines, i + 1, bind_label(labels, line, memory),
                       memory, start_)
    ELSE
    LET split == split1(line)
        opcode == strip(split[1])
        parsed == [k \in 1..(Len(split) - 1) |-> parse_arg(strip(split[k + 1]))]
        args == [k \in 1..Len(parsed) |-> parsed[k].arg]
    IN IF \E k \in 1..Len(parsed) : parsed[k].exc # "none"
       THEN AsmState(labels, memory, start_, "ValueError:int", line)
       ELSE IF opcode \in DOMAIN metaops
       THEN assemble_loop(lines, i + 1, labels,
                Append(memory, [op |-> metaops[opcode], args |-> args]), start_)
       ELSE IF opcode = <<"a", "d", "r">>
       THEN (IF args = <<>>
             THEN AsmState(labels, memory, start_, "IndexError", line)
             ELSE assemble_loop(lines, i + 1, labels, memory, args[1]))
       ELSE IF opcode = <<"e", "n", "d">>
       THEN AsmState(labels, memory, start_, "none", <<>>)
       ELSE AsmState(labels, memory, start_, "ValueError:bad opcode", line)

\* MetaII.assemble: the MetaII object [meta_vm, start] it leaves, the
\* exception it raises and, for the bad-opcode ValueError, the raw line named
assemble(vm, start_, assembly) ==
    LET a == assemble_loop(splitlines(assembly), 1, <<>>, <<>>, IntArg(0))
        loaded == [vm EXCEPT !.memory = a.memory, !.labels = a.labels]
    IN IF a.exc # "none"
       THEN [meta_vm |-> vm, start |-> start_, exc |-> a.exc, line |-> a.line]
       ELSE IF resolve_raises(loaded, a.start)
       THEN [meta_vm |-> loaded, start |-> start_, exc |-> "KeyError",
             line |-> <<>>]
       ELSE [meta_vm |-> loaded, start |-> resolve(loaded, a.start),
             exc |-> "none", line |-> <<>>]

\* the outcome of a run: kind is "output" (run returns out), "SyntaxError"
\* (run prints line and returns None), or the exception that leaves run
Returned(out) == [kind |-> "output", out |-> out, line |-> 0]

SyntaxError(line) == [kind |-> "SyntaxError", out |-> <<>>, line |-> line]

Crashed(exc) == [kind |-> exc, out |-> <<>>, line |-> 0]

NoResult == [kind |-> "none", out |-> <<>>, line |-> 0]

\* a run whose first frame returns to the first instruction
run_begin_returns_to_zero(vm, start_, source) ==
    [reset(vm) EXCEPT !.inbuf = source,
                      !.program_counter = start_,
                      !.stack = <<0, 0, 0>>]

\* lines 306-309 of run
run_begin(vm, start_, source) ==
    [reset(vm) EXCEPT !.inbuf = source,
                      !.program_counter = start_,
                      !.stack = <<Len(vm.memory), 0, 0>>]

\* the instruction memory[program_counter]; a negative index counts from the end
fetch(vm) ==
    vm.memory[IF vm.program_counter >= 0
              THEN vm.program_counter + 1
              ELSE Len(vm.memory) + vm.program_counter + 1]

\* a step that calls the opcode before it increments the program counter
step_executes_first(vm) ==
    IF vm.program_counter < -Len(vm.memory) THEN Raise(vm, "IndexError")
    ELSE exec(vm, fetch(vm).op, fetch(vm).args)

step(vm) ==
    IF vm.program_counter < -Len(vm.memory) THEN Raise(vm, "IndexError")
    ELSE exec([vm EXCEPT !.program_counter = @ + 1],
              fetch(vm).op, fetch(vm).args)

\* the test of run's while loop
in_loop(vm) == vm.program_counter < Len(vm.memory)

\* an end of run that returns the output whatever the switch
run_end_ignores_switch(vm) == Returned(vm.outbuf)

\* lines 316-319 of run
run_end(vm) ==
    IF vm.switch THEN Returned(vm.outbuf) ELSE SyntaxError(linenum(vm))

\* what run does with the exception exc that step raised in state vm
run_except(vm, exc) ==
    IF exc = "MetaSyntax" THEN SyntaxError(linenum(vm)) ELSE Crashed(exc)

\* run's while loop from state vm on, for at most fuel instructions
RECURSIVE run_loop(_, _)
run_loop(vm, fuel) ==
    IF ~in_loop(vm) THEN run_end(vm)
    ELSE IF fuel = 0 THEN NoResult
    ELSE IF step(vm).exc # "none" THEN run_except(step(vm).vm, step(vm).exc)
    ELSE run_loop(step(vm).vm, fuel - 1)

\* MetaII.run as a function of the object and the source: its outcome when
\* it ends within fuel instructions
run(vm, start_, source, fuel) == run_loop(run_begin(vm, start_, source), fuel)

-----------------------------------------------------------------------------
(* Bounds and the inputs the specifications draw from *)

MaxSteps == 40

MaxCallSteps == 10

MaxCursor == 1

MaxLen == 4

MaxProg == 4

MaxAsmLines == 3

MaxReloadLines == 2

MaxAny == 2

MaxAnySteps == 6

\* cl 'hi' followed by out, start address 0
ProgHi ==
    <<"\t", "a", "d", "r", " ", "0", "\n">>
    \o <<"\t", "c", "l", " ", "'", "h", "i", "'", "\n">>
    \o <<"\t", "o", "u", "t", "\n">>

\* a single tst
ProgTst ==
    <<"\t", "t", "s", "t", " ", "'", "a", "'", "\n">>

\* one token (identifier, number or string) copied to the output
ProgTokens ==
    <<"\t", "a", "d", "r", " ", "S", "\n">>
    \o <<"S", "\n">>
    \o <<"\t", "i", "d", "\n">>
    \o <<"\t", "b", "f", " ", "N", "\n">>
    \o <<"\t", "c", "l", " ", "'", "i", " ", "'", "\n">>
    \o <<"\t", "c", "i", "\n">>
    \o <<"\t", "o", "u", "t", "\n">>
    \o <<"\t", "s", "e", "t", "\n">>
    \o <<"\t", "r", "\n">>
    \o <<"N", "\n">>
    \o <<"\t", "n", "u", "m", "\n">>
    \o <<"\t", "b", "f", " ", "Q", "\n">>
    \o <<"\t", "c", "i", "\n">>
    \o <<"\t", "o", "u", "t", "\n">>
    \o <<"\t", "r", "\n">>
    \o <<"Q", "\n">>
    \o <<"\t", "s", "r", "\n">>
    \o <<"\t", "b", "e", "\n">>
    \o <<"\t", "l", "b", "\n">>
    \o <<"\t", "c", "i", "\n">>
    \o <<"\t", "o", "u", "t", "\n">>
    \o <<"\t", "r", "\n">>
    \o <<"\t", "e", "n", "d", "\n">>

\* any number of a's, then a b
ProgLoop ==
    <<"L", "\n">>
    \o <<"\t", "t", "s", "t", " ", "'", "a", "'", "\n">>
    \o <<"\t", "b", "t", " ", "L", "\n">>
    \o <<"\t", "t", "s", "t", " ", "'", "b", "'", "\n">>
    \o <<"\t", "b", "e", "\n">>

\* nested calls, elided and full, with labels generated in caller and callee
ProgCalls ==
    <<"\t", "a", "d", "r", " ", "M", "\n">>
    \o <<"F", "\n">>
    \o <<"\t", "g", "n", "1", "\n">>
    \o <<"\t", "o", "u", "t", "\n">>
    \o <<"\t", "c", "l", "l", " ", "G", "\n">>
    \o <<"\t", "g", "n", "1", "\n">>
    \o <<"\t", "g", "n", "2", "\n">>
    \o <<"\t", "o", "u", "t", "\n">>
    \o <<"\t", "r", "\n">>
    \o <<"G", "\n">>
    \o <<"\t", "l", "b", "\n">>
    \o <<"\t", "g", "n", "2", "\n">>
    \o <<"\t", "o", "u", "t", "\n">>
    \o <<"\t", "r", "\n">>
    \o <<"M", "\n">>
    \o <<"\t", "c", "l", "l", " ", "F", "\n">>
    \o <<"\t", "c", "l", "l", " ", "G", "\n">>
    \o <<"\t", "g", "n", "1", "\n">>
    \o <<"\t", "c", "l", "l", " ", "F", "\n">>
    \o <<"\t", "b", " ", "X", "\n">>
    \o <<"X", "\n">>
    \o <<"\t", "s", "e", "t", "\n">>
    \o <<"\t", "r", "\n">>

Programs == {ProgHi, ProgTst, ProgTokens, ProgLoop, ProgCalls}

\* the input texts of the runs
Inputs ==
    {<<>>,
     <<"a">>,
     <<" ", "a", "1">>,
     <<"1", ".", "2">>,
     <<"'", "s", "'">>,
     <<"a", "\n", "a", "\n", "b">>,
     <<"a", "\n", "\n", "c">>,
     <<"\n", "?">>}

\* all strings of at most n characters of cs
Strings(cs, n) == UNION {[1..k -> cs] : k \in 0..n}

\* the characters of the matcher inputs: whitespace, a letter, a digit, the
\* dot of num and the quote of sr
MatchChars == {" ", "a", "1", ".", QUOTE}

\* the matching instructions tried on them
Matchers ==
    {[op |-> "tst", args |-> <<StrArg(<<"a">>)>>],
     [op |-> "tst", args |-> <<StrArg(<<"1", ".">>)>>],
     [op |-> "id", args |-> <<>>],
     [op |-> "num", args |-> <<>>],
     [op |-> "sr", args |-> <<>>]}

\* the instructions of the call/return programs, with numeric targets
CallOps ==
    {[op |-> "cll", args |-> <<IntArg(k)>>] : k \in 0..(MaxProg - 1)}
    \cup {[op |-> o, args |-> <<>>] : o \in {"r", "gn1", "gn2"}}

\* one instruction of every opcode; the instructions with a label operand
\* once with the label L, which AnyLabels defines, and once with the label U,
\* which it does not
AnyOps ==
    {[op |-> o, args |-> <<StrArg(<<l>>)>>] :
        o \in {"cll", "b", "bt", "bf"}, l \in {"L", "U"}}
    \cup {[op |-> "tst", args |-> <<StrArg(<<"a">>)>>],
          [op |-> "cl", args |-> <<StrArg(<<"x">>)>>]}
    \cup {[op |-> o, args |-> <<>>] :
            o \in {"id", "num", "sr", "r", "set", "be", "ci", "gn1", "gn2",
                   "lb", "out"}}

\* the label table of those programs: L is the first instruction
AnyLabels == <<"L">> :> 0

AnyInputs == {<<>>, <<" ", "a">>}

-----------------------------------------------------------------------------
(* History *)

\* the record of a frame: the stack before the cll that opened it (and its
\* length), the index ret of the instruction after that cll, the return
\* address addr the cll stored, and the text the frame's first gn1 and first
\* gn2 appended (<<>> before that).  The frame run opens has the empty stack
\* before it and the program length as both addresses.
Frame(stack, ret, addr) ==
    [len |-> Len(stack), stack |-> stack, ret |-> ret, addr |-> addr,
     g1 |-> <<>>, g2 |-> <<>>]

NoFrame == Frame(<<>>, 0, 0)

\* the frame pushed by line 309 of run
Sentinel(vm) == Frame(<<>>, Len(vm.memory), Len(vm.memory))

NoLast == [op |-> "none", args |-> <<>>, exc |-> "none", frame |-> NoFrame,
           depth |-> 0]

\* what a run has emitted: the records flushed by out (the text of each and
\* whether an lb preceded it), the text and the lb since the last out, and
\* the label numbers allocated, in order
NoHist == [out |-> <<>>, text |-> <<>>, lb |-> FALSE, allocs |-> <<>>]

\* the history after opcode, with operands args, took the VM from before to
\* after
NextHist(h, opcode, args, before, after) ==
    LET slot == Len(before.stack) + 1 - (IF opcode = "gn1" THEN 1 ELSE 2)
    IN CASE opcode = "cl" -> [h EXCEPT !.text = @ \o args[1].v]
         [] opcode = "ci" -> [h EXCEPT !.text = @ \o before.deleted]
         [] opcode \in {"gn1", "gn2"} ->
               [h EXCEPT !.text = @ \o SliceFrom(after.outline, Len(before.outline)),
                         !.allocs = IF before.stack[slot] = 0
                                    THEN Append(@, after.stack[slot])
                                    ELSE @]
         [] opcode = "lb" -> [h EXCEPT !.lb = TRUE]
         [] opcode = "out" ->
               [h EXCEPT !.out = Append(@, [text |-> h.text, lb |-> h.lb]),
                         !.text = <<>>,
                         !.lb = FALSE]
         [] OTHER -> h

NoLoad == [assembly |-> <<>>, exc |-> "never", line |-> <<>>]

\* the text the instruction from before to after appended to outline
Emitted(before, after) == SliceFrom(after.outline, Len(before.outline))

\* the open frames after opcode took the VM from before to after
NextFrames(fs, opcode, before, after) ==
    CASE opcode = "cll" ->
            <<Frame(before.stack, before.program_counter + 1,
                    after.stack[Len(after.stack) - 2])>> \o fs
      [] opcode = "r" -> IF fs = <<>> THEN fs ELSE Tail(fs)
      [] opcode = "gn1" /\ fs # <<>> /\ fs[1].g1 = <<>> ->
            [fs EXCEPT ![1].g1 = Emitted(before, after)]
      [] opcode = "gn2" /\ fs # <<>> /\ fs[1].g2 = <<>> ->
            [fs EXCEPT ![1].g2 = Emitted(before, after)]
      [] OTHER -> fs

-----------------------------------------------------------------------------
(* Actions *)

\* MetaII(): a VM with no program
Init ==
    /\ meta_vm = NewVM(0, <<>>)
    /\ start = 0
    /\ mode = "idle"
    /\ result = NoResult
    /\ load = NoLoad
    /\ steps = 0
    /\ frames = <<>>
    /\ prev = meta_vm
    /\ last = NoLast
    /\ hist = NoHist

\* a call of assemble(assembly); an exception leaves the caller idle
Assemble(assembly) ==
    /\ mode = "idle"
    /\ LET a == assemble(meta_vm, start, assembly) IN
         /\ meta_vm' = a.meta_vm
         /\ start' = a.start
         /\ load' = [assembly |-> assembly, exc |-> a.exc, line |-> a.line]
    /\ result' = NoResult
    /\ UNCHANGED <<mode, steps, frames, prev, last, hist>>

\* a call of run(source) up to the first test of its while loop
Run(source) ==
    /\ mode = "idle"
    /\ meta_vm' = run_begin(meta_vm, start, source)
    /\ mode' = "running"
    /\ result' = NoResult
    /\ steps' = 0
    /\ frames' = <<Sentinel(meta_vm)>>
    /\ prev' = meta_vm'
    /\ last' = NoLast
    /\ hist' = NoHist
    /\ UNCHANGED <<start, load>>

\* one pass of run's while loop whose instruction is opcode: step, and the
\* except clause when the instruction raises
Step(opcode) ==
    /\ mode = "running"
    /\ in_loop(meta_vm)
    /\ steps < MaxSteps
    /\ meta_vm.program_counter >= -Len(meta_vm.memory)
    /\ fetch(meta_vm).op = opcode
    /\ LET s == step(meta_vm) IN
         /\ meta_vm' = s.vm
         /\ prev' = meta_vm
         /\ last' = [op |-> opcode, args |-> fetch(meta_vm).args,
                     exc |-> s.exc,
                     frame |-> IF frames = <<>> THEN NoFrame ELSE frames[1],
                     depth |-> Len(frames)]
         /\ steps' = steps + 1
         /\ frames' = IF s.exc = "none"
                      THEN NextFrames(frames, opcode, meta_vm, s.vm)
                      ELSE frames
         /\ hist' = IF s.exc = "none"
                    THEN NextHist(hist, opcode, fetch(meta_vm).args, meta_vm, s.vm)
                    ELSE hist
         /\ mode' = IF s.exc = "none" THEN "running" ELSE "idle"
         /\ result' = IF s.exc = "none" THEN result
                      ELSE run_except(s.vm, s.exc)
    /\ UNCHANGED <<start, load>>

StepTst == Step("tst")

StepId == Step("id")

StepNum == Step("num")

StepSr == Step("sr")

StepCll == Step("cll")

StepR == Step("r")

StepSet == Step("set")

StepB == Step("b")

StepBt == Step("bt")

StepBf == Step("bf")

StepBe == Step("be")

StepCl == Step("cl")

StepCi == Step("ci")

StepGn1 == Step("gn1")

StepGn2 == Step("gn2")

StepLb == Step("lb")

StepOut == Step("out")

\* the while loop of run ends: lines 316-319
RunReturn ==
    /\ mode = "running"
    /\ ~in_loop(meta_vm)
    /\ mode' = "idle"
    /\ result' = run_end(meta_vm)
    /\ UNCHANGED <<meta_vm, start, load, steps, frames, prev, last, hist>>

AssembleProgram == \E p \in Programs : Assemble(p)

RunInput == \E source \in Inputs : Run(source)

Next ==
    \/ AssembleProgram
    \/ RunInput
    \/ StepTst
    \/ StepId
    \/ StepNum
    \/ StepSr
    \/ StepCll
    \/ StepR
    \/ StepSet
    \/ StepB
    \/ StepBt
    \/ StepBf
    \/ StepBe
    \/ StepCl
    \/ StepCi
    \/ StepGn1
    \/ StepGn2
    \/ StepLb
    \/ StepOut
    \/ RunReturn

Spec == Init /\ [][Next]_vars

\* the lines of the generated assembly texts: labels (one with trailing
\* whitespace), instructions, the pseudo-ops, blank lines, an unknown
\* mnemonic, operands that start with a digit, an adr without operand
AsmLines ==
    {<<"L">>,
     <<"L", " ">>,
     <<"M">>,
     <<"\t", "c", "l", " ", "'", "x", "'">>,
     <<"\t", "r">>,
     <<"\t", "a", "d", "r", " ", "L">>,
     <<"\t", "e", "n", "d">>,
     <<>>,
     <<" ", " ">>,
     <<"\t", "f", "o", "o">>,
     <<"\t", "b", " ", "1", "x">>,
     <<"\t", "f", "o", "o", " ", "1", "x">>,
     <<"\t", "a", "d", "r">>}

\* the text whose lines are ls, each ended by a newline
RECURSIVE JoinLines(_)
JoinLines(ls) ==
    IF ls = <<>> THEN <<>> ELSE Head(ls) \o <<"\n">> \o JoinLines(Tail(ls))

AsmTexts == {JoinLines(ls) : ls \in Strings(AsmLines, MaxAsmLines)}

-----------------------------------------------------------------------------
(* The matchers on every input: a run of two matching instructions has     *)
(* begun on an input of at most MaxLen characters, with the cursor where   *)
(* an earlier run left it (at most MaxCursor).                             *)

InitMatch ==
    /\ \E s \in Strings(MatchChars, MaxLen) :
       \E c \in 0..Min(MaxCursor, Len(s)) :
       \E i1 \in Matchers, i2 \in Matchers :
           meta_vm = run_begin([NewVM(0, <<i1, i2>>) EXCEPT !.inbuf_index = c],
                               0, s)
    /\ start = 0
    /\ mode = "running"
    /\ result = NoResult
    /\ load = NoLoad
    /\ steps = 0
    /\ frames = <<Sentinel(meta_vm)>>
    /\ prev = meta_vm
    /\ last = NoLast
    /\ hist = NoHist

NextMatch ==
    \/ StepTst
    \/ StepId
    \/ StepNum
    \/ StepSr
    \/ RunReturn

SpecMatch == InitMatch /\ [][NextMatch]_vars

-----------------------------------------------------------------------------
(* Calls and returns in every program: a run has begun on a program of at  *)
(* most MaxProg instructions drawn from cll, r, gn1 and gn2, and is        *)
(* followed for MaxCallSteps instructions.                                 *)

InitCalls ==
    /\ \E mem \in Strings(CallOps, MaxProg) :
           /\ mem # <<>>
           /\ meta_vm = run_begin(NewVM(0, mem), 0, <<>>)
    /\ start = 0
    /\ mode = "running"
    /\ result = NoResult
    /\ load = NoLoad
    /\ steps = 0
    /\ frames = <<Sentinel(meta_vm)>>
    /\ prev = meta_vm
    /\ last = NoLast
    /\ hist = NoHist

NextCalls ==
    \/ steps < MaxCallSteps /\ StepCll
    \/ steps < MaxCallSteps /\ StepR
    \/ steps < MaxCallSteps /\ StepGn1
    \/ steps < MaxCallSteps /\ StepGn2
    \/ RunReturn

SpecCalls == InitCalls /\ [][NextCalls]_vars

-----------------------------------------------------------------------------
(* Every program of at most MaxAny instructions of AnyOps: a run has begun *)
(* on it and is followed for MaxAnySteps instructions.                     *)

InitAny ==
    /\ \E mem \in Strings(AnyOps, MaxAny) :
       \E source \in AnyInputs :
           /\ mem # <<>>
           /\ meta_vm = run_begin([NewVM(0, mem) EXCEPT !.labels = AnyLabels],
                                  0, source)
    /\ start = 0
    /\ mode = "running"
    /\ result = NoResult
    /\ load = NoLoad
    /\ steps = 0
    /\ frames = <<Sentinel(meta_vm)>>
    /\ prev = meta_vm
    /\ last = NoLast
    /\ hist = NoHist

NextAny ==
    \/ steps < MaxAnySteps /\ StepTst
    \/ steps < MaxAnySteps /\ StepId
    \/ steps < MaxAnySteps /\ StepNum
    \/ steps < MaxAnySteps /\ StepSr
    \/ steps < MaxAnySteps /\ StepCll
    \/ steps < MaxAnySteps /\ StepR
    \/ steps < MaxAnySteps /\ StepSet
    \/ steps < MaxAnySteps /\ StepB
    \/ steps < MaxAnySteps /\ StepBt
    \/ steps < MaxAnySteps /\ StepBf
    \/ steps < MaxAnySteps /\ StepBe
    \/ steps < MaxAnySteps /\ StepCl
    \/ steps < MaxAnySteps /\ StepCi
    \/ steps < MaxAnySteps /\ StepGn1
    \/ steps < MaxAnySteps /\ StepGn2
    \/ steps < MaxAnySteps /\ StepLb
    \/ steps < MaxAnySteps /\ StepOut
    \/ RunReturn

SpecAny == InitAny /\ [][NextAny]_vars

-----------------------------------------------------------------------------
(* The assembler on every text of at most MaxAsmLines lines of AsmLines,   *)
(* assembled by a new MetaII object.                                       *)

AssembleText ==
    /\ load.exc = "never"
    /\ \E assembly \in AsmTexts : Assemble(assembly)

NextAsm == AssembleText

SpecAsm == Init /\ [][NextAsm]_vars


-----------------------------------------------------------------------------
(* A second assemble: a MetaII object loads one of Programs and then        *)
(* assembles a text of at most MaxReloadLines lines of AsmLines.           *)

ReloadTexts == {JoinLines(ls) : ls \in Strings(AsmLines, MaxReloadLines)}

\* the two calls of assemble: the first loads one of Programs, the second
\* assembles one of ReloadTexts over it
Reload ==
    /\ \/ load.exc = "never"
       \/ load.exc = "none" /\ load.assembly \in Programs
    /\ \E assembly \in (IF load.exc = "never" THEN Programs ELSE ReloadTexts) :
           Assemble(assembly)

NextReload == Reload

SpecReload == Init /\ [][NextReload]_vars

-----------------------------------------------------------------------------
(* Properties *)

\* a new MetaII object holding the program of the current one
FreshVM == [NewVM(0, meta_vm.memory) EXCEPT !.labels = meta_vm.labels]

\* C1: a run on a VM that has run before begins in the state in which a run
\* on a new VM holding the same program begins (the cursor is 0 and every
\* other field has its initial value when the first instruction is fetched),
\* and it ends with the result the run on the new VM ends with.
C1_RunIndependentOfEarlierRuns ==
    /\ (mode = "running" /\ steps = 0) =>
           /\ meta_vm.inbuf_index = 0
           /\ meta_vm = run_begin(FreshVM, start, meta_vm.inbuf)
    /\ (mode = "idle" /\ result.kind # "none") =>
           LET fresh == run(FreshVM, start, meta_vm.inbuf, MaxSteps)
           IN fresh.kind # "none" => result = fresh


-----------------------------------------------------------------------------
(* The patterns of the matching instructions, stated on a whole span w *)

IsId(w) ==
    /\ Len(w) >= 1
    /\ w[1] \in letters
    /\ \A i \in 2..Len(w) : w[i] \in letters \cup digits

\* digits, with single dots between groups of digits
IsNum(w) ==
    /\ Len(w) >= 1
    /\ \A i \in 1..Len(w) : w[i] \in digits \cup {"."}
    /\ w[1] \in digits
    /\ w[Len(w)] \in digits
    /\ \A i \in 1..(Len(w) - 1) : ~(w[i] = "." /\ w[i + 1] = ".")

IsSr(w) ==
    /\ Len(w) >= 3
    /\ w[1] = QUOTE
    /\ w[Len(w)] = QUOTE
    /\ \A i \in 2..(Len(w) - 1) : w[i] # QUOTE

Matches(op, args, w) ==
    CASE op = "tst" -> w = args[1].v
      [] op = "id" -> IsId(w)
      [] op = "num" -> IsNum(w)
      [] op = "sr" -> IsSr(w)
      [] OTHER -> FALSE

Matching == {"tst", "id", "num", "sr"}

\* the first position at or after the cursor of vm that holds no whitespace
\* (the end of the input when there is none)
FirstNonWs(vm) ==
    IF vm.inbuf_index >= Len(vm.inbuf) THEN vm.inbuf_index
    ELSE CHOOSE p \in vm.inbuf_index..Len(vm.inbuf) :
            /\ \A i \in (vm.inbuf_index + 1)..p : vm.inbuf[i] \in whitespace
            /\ (p < Len(vm.inbuf) => vm.inbuf[p + 1] \notin whitespace)

\* the lengths of the spans at FirstNonWs(vm) that match the pattern
MatchLens(op, args, vm) ==
    LET p == FirstNonWs(vm) IN
    {n \in 0..Len(vm.inbuf) :
        /\ p + n <= Len(vm.inbuf)
        /\ Matches(op, args, Slice(vm.inbuf, p, p + n))}

Longest(ns) == CHOOSE n \in ns : \A m \in ns : m <= n

\* the last instruction was a matching instruction that returned
Matched == last.op \in Matching /\ last.exc = "none"

\* C2 as claimed: a tst, id, num or sr that fails to match leaves the cursor
\* where it was before the instruction, leaves last_matched unchanged and
\* sets the condition flag false.
C2_FailureLeavesCursor ==
    (Matched /\ MatchLens(last.op, last.args, prev) = {}) =>
        /\ meta_vm.inbuf_index = prev.inbuf_index
        /\ meta_vm.deleted = prev.deleted
        /\ ~meta_vm.switch

\* C2 as amended: a tst, id, num or sr that fails to match leaves the cursor
\* at the first non-whitespace position at or after the cursor it started
\* from (the leading whitespace is consumed, nothing else), leaves
\* last_matched unchanged and sets the condition flag false.
C2_FailureSkipsOnlyWhitespace ==
    (Matched /\ MatchLens(last.op, last.args, prev) = {}) =>
        /\ meta_vm.inbuf_index = FirstNonWs(prev)
        /\ meta_vm.deleted = prev.deleted
        /\ ~meta_vm.switch

\* a matching instruction failed after skipping whitespace, with text deleted
\* by an earlier match to keep
C2_Witness ==
    /\ Matched
    /\ MatchLens(last.op, last.args, prev) = {}
    /\ meta_vm.inbuf_index > prev.inbuf_index
    /\ prev.deleted # <<>>
    /\ prev.switch

\* C3: a tst, id, num or sr whose pattern matches at the first
\* non-whitespace position sets the condition flag true, moves the cursor to
\* the end of the longest matching span there and sets last_matched to that
\* span, without the whitespace skipped.
C3_MatchConsumesLongestSpan ==
    LET lens == MatchLens(last.op, last.args, prev) IN
    (Matched /\ lens # {}) =>
        LET p == FirstNonWs(prev)
            n == Longest(lens)
        IN /\ meta_vm.switch
           /\ meta_vm.inbuf_index = p + n
           /\ meta_vm.deleted = Slice(prev.inbuf, p, p + n)

\* a num matched a dotted number after skipping whitespace
C3_Witness ==
    /\ Matched
    /\ last.op = "num"
    /\ FirstNonWs(prev) > prev.inbuf_index
    /\ meta_vm.deleted = <<"1", ".", "1">>
    /\ meta_vm.switch


-----------------------------------------------------------------------------
(* The driver *)

\* the program of cl 'hi' followed by out, loaded with start address 0
HiLoaded ==
    /\ meta_vm.memory = <<[op |-> "cl", args |-> <<StrArg(<<"h", "i">>)>>],
                          [op |-> "out", args |-> <<>>]>>
    /\ start = 0

HiOutput == <<"\t", "h", "i", "\n">>

\* the last call was a run and it has ended
RunEnded == mode = "idle" /\ result.kind # "none"

\* C4 as claimed: the program cl 'hi', out runs off its end with the
\* condition flag true, and run returns a tab, hi and a newline.
C4_HiReturnsOutput ==
    (HiLoaded /\ RunEnded) =>
        /\ meta_vm.switch
        /\ result = Returned(HiOutput)

\* C4 as amended: the program cl 'hi', out runs off its end with the
\* condition flag false (false is the condition reset sets, and neither
\* instruction changes it), so run reports a match failure and returns
\* nothing; the output buffer it leaves holds a tab, hi and a newline.
C4_HiFailsWithFlagFalse ==
    (HiLoaded /\ RunEnded) =>
        /\ ~meta_vm.switch
        /\ result.kind = "SyntaxError"
        /\ result.out = <<>>
        /\ meta_vm.outbuf = HiOutput

\* the hi program has run to its end on a non-empty input
C4_Witness ==
    /\ HiLoaded
    /\ RunEnded
    /\ last.op = "out"
    /\ meta_vm.inbuf # <<>>
    /\ meta_vm.program_counter = 2

\* C7: run returns the output buffer, whole, exactly when its loop ended
\* with the program counter past the end of the program and the condition
\* flag true; in every other case it returns nothing, whatever the output
\* buffer holds.
C7_OutputOnlyOnSuccess ==
    RunEnded =>
        /\ result.kind = "output" <=>
              (last.exc = "none" /\ ~in_loop(meta_vm) /\ meta_vm.switch)
        /\ result.kind = "output" => result.out = meta_vm.outbuf
        /\ result.kind # "output" => result.out = <<>>

\* a run failed after it had produced output
C7_Witness ==
    /\ RunEnded
    /\ result.kind = "SyntaxError"
    /\ meta_vm.outbuf # <<>>
    /\ result.out = <<>>

\* the newlines of the input of vm that lie before its cursor
NewlinesBeforeCursor(vm) ==
    {i \in 1..Len(vm.inbuf) : i <= vm.inbuf_index /\ vm.inbuf[i] = "\n"}

\* C8: a failed run reports the line 1 + the number of newlines of its input
\* that lie before the cursor; on an input without newline it reports line 1.
C8_LineCountsNewlinesBeforeCursor ==
    (RunEnded /\ result.kind = "SyntaxError") =>
        /\ result.line = 1 + Cardinality(NewlinesBeforeCursor(meta_vm))
        /\ (\A i \in 1..Len(meta_vm.inbuf) : meta_vm.inbuf[i] # "\n")
              => result.line = 1

\* a be stopped a run on the third line of an input with more to come
C8_Witness ==
    /\ RunEnded
    /\ result.kind = "SyntaxError"
    /\ last.op = "be"
    /\ last.exc = "MetaSyntax"
    /\ result.line = 3
    /\ meta_vm.inbuf_index < Len(meta_vm.inbuf)

-----------------------------------------------------------------------------
(* Calls and returns *)

\* C5: the r that matches a cll (the r executed in the frame the cll opened)
\* leaves the call stack as long as it was before the cll.
C5_ReturnRestoresStackLength ==
    (last.op = "r" /\ last.exc = "none" /\ last.depth >= 2) =>
        Len(meta_vm.stack) = last.frame.len

\* an elided call made from inside a full frame has returned
C5_Witness ==
    /\ last.op = "r"
    /\ last.exc = "none"
    /\ last.depth >= 3
    /\ prev.stack[Len(prev.stack) - 2] < 0
    /\ \E i \in 4..Len(meta_vm.stack) : meta_vm.stack[i] > 0
    /\ Len(meta_vm.stack) = last.frame.len

\* C6: a gn1 (gn2) executed in a frame in which an earlier gn1 (gn2) has
\* generated a label appends that same label.
C6_LabelStableInFrame ==
    /\ (last.op = "gn1" /\ last.exc = "none" /\ last.frame.g1 # <<>>) =>
           Emitted(prev, meta_vm) = last.frame.g1
    /\ (last.op = "gn2" /\ last.exc = "none" /\ last.frame.g2 # <<>>) =>
           Emitted(prev, meta_vm) = last.frame.g2

\* a gn1 repeated the first label of its frame after a call whose callee
\* generated a later label
C6_Witness ==
    /\ last.op = "gn1"
    /\ last.exc = "none"
    /\ last.frame.g1 = <<"l", "1">>
    /\ Emitted(prev, meta_vm) = <<"l", "1">>
    /\ meta_vm.templabel >= 2


-----------------------------------------------------------------------------
(* The assembler *)

\* the lines of the text of the last assemble call
AsmInput == splitlines(load.assembly)

IsBlank(l) == \A k \in 1..Len(l) : l[k] \in whitespace

IsLabelLine(l) == ~IsBlank(l) /\ l[1] \notin whitespace

IsInstrLine(l) == ~IsBlank(l) /\ l[1] \in whitespace

\* the first word of a line
Mnemonic(l) == Slice(lstrip(l), 0, span_word(lstrip(l)))

ADR == <<"a", "d", "r">>

END == <<"e", "n", "d">>

\* the index of the first end line of ls, Len(ls) + 1 when there is none
EndAt(ls) ==
    CHOOSE e \in 1..(Len(ls) + 1) :
        /\ \A i \in 1..(e - 1) : ~(IsInstrLine(ls[i]) /\ Mnemonic(ls[i]) = END)
        /\ (e <= Len(ls) => (IsInstrLine(ls[e]) /\ Mnemonic(ls[e]) = END))

\* the line emits an instruction
Emits(l) == IsInstrLine(l) /\ Mnemonic(l) \in DOMAIN metaops

\* the number of instructions emitted before line i of ls
EmittedBefore(ls, i) == Cardinality({j \in 1..(i - 1) : Emits(ls[j])})

\* the label lines before the first end
LabelDefs(ls) == {i \in 1..(EndAt(ls) - 1) : IsLabelLine(ls[i])}

\* C9: after assemble succeeds the label table holds exactly the labels
\* defined before the end of parsing, each bound to the number of
\* instructions emitted before its last definition.
C9_LabelsBindNextInstruction ==
    load.exc = "none" =>
        LET ls == AsmInput IN
        /\ DOMAIN meta_vm.labels = {strip(ls[i]) : i \in LabelDefs(ls)}
        /\ \A i \in LabelDefs(ls) :
              (\A j \in LabelDefs(ls) : strip(ls[j]) = strip(ls[i]) => j <= i)
                  => meta_vm.labels[strip(ls[i])] = EmittedBefore(ls, i)

\* a label defined twice, with an instruction in between, is bound to the
\* index after that instruction
C9_Witness ==
    /\ load.exc = "none"
    /\ \E i \in LabelDefs(AsmInput), j \in LabelDefs(AsmInput) :
          /\ i < j
          /\ strip(AsmInput[i]) = strip(AsmInput[j])
          /\ EmittedBefore(AsmInput, i) = 0
          /\ EmittedBefore(AsmInput, j) = 1
          /\ meta_vm.labels[strip(AsmInput[j])] = 1

\* the instruction lines before the first end whose mnemonic is no opcode
\* and no pseudo-op
UnknownLines(ls) ==
    {i \in 1..(EndAt(ls) - 1) :
        /\ IsInstrLine(ls[i])
        /\ Mnemonic(ls[i]) \notin (DOMAIN metaops \cup {ADR, END})}

\* the text of the lines of ls up to and including the first end
UpToEnd(ls) == JoinLines(Slice(ls, 0, EndAt(ls)))

\* C10: assemble fails with the load error that names the raw line exactly
\* when a line before the first end has an unknown mnemonic, the line named
\* is such a line, and the lines after the first end change nothing.
C10_LoadErrorIffUnknownMnemonic ==
    load.exc # "never" =>
        LET ls == AsmInput
            cut == assemble(NewVM(0, <<>>), 0, UpToEnd(ls))
        IN /\ load.exc = "ValueError:bad opcode" <=> UnknownLines(ls) # {}
           /\ load.exc = "ValueError:bad opcode" =>
                 load.line \in {ls[i] : i \in UnknownLines(ls)}
           /\ cut.exc = load.exc
           /\ cut.line = load.line
           /\ cut.meta_vm = meta_vm
           /\ cut.start = start

-----------------------------------------------------------------------------
(* Label operands *)

\* the instructions that take a label operand
Branching == {"cll", "b", "bt", "bf"}

\* the last instruction has a label operand that the label table lacks
Unbound ==
    /\ last.op \in Branching
    /\ last.args # <<>>
    /\ resolve_raises(prev, last.args[1])

\* the last instruction resolves its operand: cll and b always, bt when the
\* condition flag is true, bf when it is false
Resolves ==
    \/ last.op \in {"cll", "b"}
    \/ last.op = "bt" /\ prev.switch
    \/ last.op = "bf" /\ ~prev.switch

\* the run ended with a lookup error: no syntax error, no line, no output
LookupFailure == mode = "idle" /\ result = Crashed("KeyError")

\* C11 as claimed: whenever execution reaches a cll, b, bt or bf whose label
\* operand is not in the label table, the run fails with a lookup error,
\* which is no syntax error with a line number, and returns no output.
C11_UnboundLabelFails ==
    Unbound => LookupFailure

\* C11 as amended: a cll or b, a bt reached with the condition flag true and
\* a bf reached with it false, whose label operand is not in the label
\* table, fails the run with a lookup error, which is no syntax error with a
\* line number, and the run returns no output; a bt reached with the flag
\* false and a bf reached with it true do not look their operand up, change
\* nothing but the program counter, and the run goes on to its next
\* instruction or to its end without a lookup error.
C11_ResolvedUnboundLabelFails ==
    /\ (Unbound /\ Resolves) =>
           /\ last.exc = "KeyError"
           /\ LookupFailure
           /\ result.kind # "SyntaxError"
           /\ result.out = <<>>
    /\ (Unbound /\ ~Resolves) =>
           /\ last.exc = "none"
           /\ ~LookupFailure
           /\ meta_vm = [prev EXCEPT !.program_counter = @ + 1]

\* a bt with the flag true failed on its unbound label after the run had
\* flushed no output and matched nothing
C11_Witness ==
    /\ Unbound
    /\ last.op = "bt"
    /\ prev.switch
    /\ LookupFailure
    /\ meta_vm.program_counter = 2

-----------------------------------------------------------------------------
(* Output *)

\* the record out flushes for a line of text: a tab unless an lb preceded it,
\* the text, a newline
Record(r) == (IF r.lb THEN <<>> ELSE <<"\t">>) \o r.text \o <<"\n">>

\* the records of rs one after the other
RECURSIVE Records(_)
Records(rs) == IF rs = <<>> THEN <<>> ELSE Record(Head(rs)) \o Records(Tail(rs))

\* C12: in every state of a run the output buffer is the concatenation of
\* one newline-terminated record per executed out, in order; each record is
\* the text cl, ci, gn1 and gn2 appended since the out before it, after one
\* tab exactly when no lb was executed since that out; the output line and
\* the pending label are what was appended and whether lb was executed since
\* the last out (empty and false right after an out); and every instruction
\* leaves the output buffer it found as a prefix of the one it leaves.
C12_OutputIsFlushedRecords ==
    /\ meta_vm.outbuf = Records(hist.out)
    /\ meta_vm.outline = hist.text
    /\ meta_vm.outlabel = hist.lb
    /\ last.op # "none" =>
           Slice(meta_vm.outbuf, 0, Len(prev.outbuf)) = prev.outbuf
    /\ (last.op = "out" /\ last.exc = "none") =>
           /\ meta_vm.outbuf = prev.outbuf \o Record(hist.out[Len(hist.out)])
           /\ meta_vm.outline = <<>>
           /\ ~meta_vm.outlabel

\* a run has flushed a record with a tab and one without, and has text
\* pending for the next
C12_Witness ==
    /\ mode = "running"
    /\ Len(hist.out) >= 2
    /\ \E i \in 1..Len(hist.out) : hist.out[i].lb /\ hist.out[i].text # <<>>
    /\ \E i \in 1..Len(hist.out) : ~hist.out[i].lb /\ hist.out[i].text # <<>>
    /\ meta_vm.outline # <<>>
    /\ meta_vm.outbuf = Records(hist.out)

-----------------------------------------------------------------------------
(* The encoding of frames *)

\* the last instruction was a cll that returned
Called == last.op = "cll" /\ last.exc = "none"

\* the last two entries of the stack of vm exist and are both zero
SlotsFree(vm) ==
    /\ Len(vm.stack) >= 2
    /\ vm.stack[Len(vm.stack) - 1] = 0
    /\ vm.stack[Len(vm.stack)] = 0

\* C13: a cll grows the call stack by one entry when its last two entries
\* are both zero and by three otherwise; the entry three positions from the
\* new top is the index of the instruction after the cll, negated in the
\* first case and as it is in the second; the two entries above it are zero,
\* every other entry the stack had is unchanged, and the program counter is
\* the resolved target.
C13_CallPushesFrame ==
    Called =>
        LET n == Len(prev.stack)
            m == Len(meta_vm.stack)
            after == prev.program_counter + 1
        IN /\ SlotsFree(prev) =>
                 /\ m = n + 1
                 /\ meta_vm.stack[m - 2] = -after
                 /\ \A i \in 1..n : i # m - 2 => meta_vm.stack[i] = prev.stack[i]
           /\ ~SlotsFree(prev) =>
                 /\ m = n + 3
                 /\ meta_vm.stack[m - 2] = after
                 /\ \A i \in 1..n : meta_vm.stack[i] = prev.stack[i]
           /\ meta_vm.stack[m - 1] = 0
           /\ meta_vm.stack[m] = 0
           /\ meta_vm.program_counter = resolve(prev, last.args[1])

\* an elided call made inside a full frame, from an instruction that is not
\* the first, to a target that is not the next instruction
C13_Witness ==
    /\ Called
    /\ SlotsFree(prev)
    /\ Len(prev.stack) >= 6
    /\ prev.program_counter >= 1
    /\ meta_vm.stack[Len(meta_vm.stack) - 2] < -1
    /\ meta_vm.program_counter # prev.program_counter + 1
    /\ \E i \in 1..3 : meta_vm.stack[i] > 0 /\ meta_vm.stack[i] = prev.stack[i]

\* the last instruction was the r of a frame that a cll opened
ReturnedFromCall == last.op = "r" /\ last.exc = "none" /\ last.depth >= 2

\* C14: after a cll and its matching r the program counter is the index of
\* the instruction after the cll and the call stack is, entry for entry, the
\* stack before the cll; after an elided call the last two entries are zero
\* again.
C14_ReturnRestoresStack ==
    ReturnedFromCall =>
        /\ meta_vm.program_counter = last.frame.ret
        /\ meta_vm.stack = last.frame.stack
        /\ last.frame.addr < 0 => SlotsFree(meta_vm)

\* an elided call has returned whose callee had allocated both labels in the
\* entries it shared with the enclosing frame
C14_Witness ==
    /\ ReturnedFromCall
    /\ last.frame.addr < 0
    /\ prev.stack[Len(prev.stack)] > 0
    /\ prev.stack[Len(prev.stack) - 1] > 0
    /\ meta_vm.stack = last.frame.stack
    /\ meta_vm.program_counter = last.frame.ret

-----------------------------------------------------------------------------
(* be *)

\* the state the last instruction found, with the program counter step
\* incremented before it called the opcode
Fetched == [prev EXCEPT !.program_counter = @ + 1]

\* C15: a be executed with the condition flag false ends the run at once
\* with a match failure: no instruction follows it and nothing but the
\* incremented program counter has changed; a be executed with the flag true
\* changes nothing else either and the run goes on with the next instruction
\* (to its successful end when there is none).
C15_BeHaltsOnFalse ==
    last.op = "be" =>
        /\ ~prev.switch =>
               /\ last.exc = "MetaSyntax"
               /\ mode = "idle"
               /\ RunEnded =>
                      /\ result = SyntaxError(linenum(prev))
                      /\ meta_vm = Fetched
        /\ prev.switch =>
               /\ last.exc = "none"
               /\ (mode = "running" \/ RunEnded) => meta_vm = Fetched
               /\ in_loop(Fetched) => mode = "running"
               /\ RunEnded => result = Returned(prev.outbuf)

\* a be stopped a run that had consumed input and matched text before
C15_Witness ==
    /\ last.op = "be"
    /\ ~prev.switch
    /\ RunEnded
    /\ result.kind = "SyntaxError"
    /\ meta_vm.inbuf_index > 0
    /\ meta_vm.deleted # <<>>
    /\ meta_vm.inbuf_index < Len(meta_vm.inbuf)
    /\ result.line >= 2

-----------------------------------------------------------------------------
(* The frame run pushes *)

\* the last instruction was an r that found three entries on the call stack
TopReturn == last.op = "r" /\ last.exc = "none" /\ Len(prev.stack) = 3

\* C16: an r executed with only the frame of run on the call stack (its
\* first entry the program length, its label slots allocated or not) makes
\* the program counter the program length and the call stack empty; no
\* instruction follows it, and the run succeeds exactly when the condition
\* flag is true.
C16_TopReturnEndsRun ==
    TopReturn =>
        /\ prev.stack[1] = Len(prev.memory)
        /\ meta_vm.program_counter = Len(prev.memory)
        /\ meta_vm.stack = <<>>
        /\ mode = "running" => ~in_loop(meta_vm)
        /\ RunEnded =>
               /\ meta_vm.switch => result = Returned(meta_vm.outbuf)
               /\ ~meta_vm.switch => result = SyntaxError(linenum(meta_vm))

\* an r that was not the last instruction of its program ended a run, which
\* failed although the instruction after the r would have set the flag
C16_Witness ==
    /\ TopReturn
    /\ mode = "idle"
    /\ ~meta_vm.switch
    /\ result.kind = "SyntaxError"
    /\ prev.program_counter + 1 < Len(meta_vm.memory)
    /\ meta_vm.memory[prev.program_counter + 2].op = "set"
    /\ meta_vm.program_counter = Len(meta_vm.memory)
    /\ meta_vm.stack = <<>>

-----------------------------------------------------------------------------
(* Temporary labels *)

\* the last instruction was a gn1 or gn2 that returned
Generated == last.op \in {"gn1", "gn2"} /\ last.exc = "none"

\* the stack index of the slot of the last gn1 or gn2
Slot == Len(prev.stack) + 1 - (IF last.op = "gn1" THEN 1 ELSE 2)

\* the last instruction allocated a label: a gn1 or gn2 that found its slot
\* zero
Allocated == Generated /\ prev.stack[Slot] = 0

\* C17: the label counter is one more after a gn1 or gn2 that finds its slot
\* zero and unchanged after every other instruction, so it never decreases
\* in a run; every label a gn1 or gn2 emits is l followed by a number that is
\* at least 1; and the allocations of a run all receive different numbers.
C17_LabelsAreFresh ==
    /\ last.op # "none" =>
           meta_vm.templabel = prev.templabel + (IF Allocated THEN 1 ELSE 0)
    /\ Generated =>
           /\ meta_vm.stack[Slot] >= 1
           /\ Emitted(prev, meta_vm) = <<"l">> \o decimal(meta_vm.stack[Slot])
    /\ \A i \in 1..Len(hist.allocs) :
           /\ hist.allocs[i] >= 1
           /\ \A j \in 1..Len(hist.allocs) :
                  hist.allocs[i] = hist.allocs[j] => i = j

\* a gn found its slot allocated after three labels had been allocated in
\* the run, the others in other frames
C17_Witness ==
    /\ Generated
    /\ ~Allocated
    /\ Len(hist.allocs) >= 3
    /\ meta_vm.templabel = prev.templabel
    /\ meta_vm.stack[Slot] < meta_vm.templabel
    /\ last.depth >= 2

-----------------------------------------------------------------------------
(* The cursor *)

\* C18: during a run the input cursor is never negative and no instruction
\* leaves it before the position at which it found it.
C18_CursorNeverMovesBack ==
    /\ meta_vm.inbuf_index >= 0
    /\ last.op # "none" =>
           /\ meta_vm.inbuf_index >= prev.inbuf_index
           /\ meta_vm.inbuf = prev.inbuf

\* a matching instruction consumed a span that starts after whitespace it
\* skipped, from a cursor that earlier instructions had advanced
C18_Witness ==
    /\ Matched
    /\ meta_vm.switch
    /\ prev.inbuf_index > 0
    /\ FirstNonWs(prev) > prev.inbuf_index
    /\ meta_vm.inbuf_index > FirstNonWs(prev)
    /\ meta_vm.inbuf_index <= Len(meta_vm.inbuf)

-----------------------------------------------------------------------------
(* The sign of the return address *)

\* the cll that opened frame f found the last two entries of the stack zero
FrameElided(f) ==
    /\ f.len >= 2
    /\ f.stack[f.len - 1] = 0
    /\ f.stack[f.len] = 0

\* C19: the return address a cll stores is never zero; it is negative
\* exactly when the call is elided (the stack grew by one entry) and positive
\* exactly when a full frame was pushed (it grew by three); the r of the
\* frame finds that address and removes one entry exactly for an elided call
\* and three exactly for a full one; and the program counter is not negative
\* when an instruction is fetched.
C19_SignEncodesFrameKind ==
    /\ Called =>
           LET addr == meta_vm.stack[Len(meta_vm.stack) - 2]
               grew == Len(meta_vm.stack) - Len(prev.stack)
           IN /\ addr # 0
              /\ addr < 0 <=> grew = 1
              /\ addr > 0 <=> grew = 3
              /\ addr < 0 <=> SlotsFree(prev)
    /\ ReturnedFromCall =>
           LET popped == Len(prev.stack) - Len(meta_vm.stack)
           IN /\ prev.stack[Len(prev.stack) - 2] = last.frame.addr
              /\ FrameElided(last.frame) <=> popped = 1
              /\ ~FrameElided(last.frame) <=> popped = 3
    /\ mode = "running" => meta_vm.program_counter >= 0

\* a full call made from inside an elided call has returned
C19_Witness ==
    /\ ReturnedFromCall
    /\ ~FrameElided(last.frame)
    /\ last.frame.addr > 0
    /\ last.depth >= 3
    /\ \E i \in 1..Len(meta_vm.stack) : meta_vm.stack[i] < 0
    /\ Len(prev.stack) - Len(meta_vm.stack) = 3

-----------------------------------------------------------------------------
(* A failed assemble *)

\* C20: a call of assemble that fails, with the load error of an unknown
\* opcode or with the lookup failure of an adr label that is not defined,
\* leaves the loaded program as it was: the instructions, the label table
\* and the start index after the call are those before it.
C20_FailedAssembleKeepsProgram ==
    [][(load' # load /\ load'.exc # "none") =>
          /\ meta_vm'.memory = meta_vm.memory
          /\ meta_vm'.labels = meta_vm.labels
          /\ start' = start]_vars

=============================================================================
